---------------------------- MODULE Spec2Model ----------------------------
(***************************************************************************)
(* A state-machine model of MugDesigner (src/designer.js): the 2D scene    *)
(* (a fabric.js canvas), the undo/redo history, the layer projection, the  *)
(* constraint engine (checkBounds / snapToCenter) and the debounced        *)
(* texture synchronisation.                                                *)
(*                                                                         *)
(* Lengths are integers counted in tenths of a pixel (UnitsPerPx), so that *)
(* the 0.4px stroke of the safe rectangle is exact.  A scale factor is a   *)
(* fraction <<n, d>>.  The fabric.js calls the program makes (add, remove, *)
(* insertAt, clear, toJSON, loadFromJSON) are modelled by what fabric 4/5  *)
(* does for them: add/insertAt fire object:added, remove and clear fire    *)
(* object:removed for every object taken off, toJSON leaves out objects    *)
(* with excludeFromExport and every custom property, loadFromJSON clears   *)
(* the canvas and inserts the revived objects one by one.                  *)
(***************************************************************************)
EXTENDS Integers, Sequences, FiniteSets, TLC

VARIABLES
    canvas,        \* this.canvas._objects: sequence of object ids, paint order
    objs,          \* the live scene objects: id -> record of properties
    activeObject,  \* this.canvas.getActiveObject(): an id, or NoObject
    transforming,  \* the object under a mouse transform, or NoObject
    history,       \* this.history: sequence of snapshots
    redoHistory,   \* this.redoHistory: sequence of snapshots
    layersPanel,   \* the layer entries shown: sequence of object ids
    timeout,       \* debounce closure: the handle of the last timer set, 0 = none
    pending,       \* asynchronous completions in flight (image loads)
    width,         \* this.canvas.width  (tenths of a pixel)
    height,        \* this.canvas.height (tenths of a pixel)
    timers,        \* the browser's pending sync timers: handle -> ms left
    elapsed,       \* ms since the last debouncedUpdate call (capped)
    runsSinceCall, \* updateMugTexture executions since that call (capped)
    burst,         \* calls of the burst whose timer is pending (capped)
    outerMug,      \* whether this.meshes["Object_4"] is set
    map,           \* outerMug.material.map: the texture on the mug, or NoTexture
    loads,         \* textures THREE.TextureLoader is decoding, oldest first
    safeZoneVisible, \* this.safeZoneVisible
    bleedVisible,  \* this.bleedVisible
    modal,         \* whether #warningModal is displayed
    analytics,     \* this.analytics: elementsCount, and a count per font and colour
    patternMovable, \* this.patternMovable
    modalTimers,   \* the pending hide timers of showModal: ms left, oldest first
    ops,           \* number of user operations so far (bounds the run)
    lastOp,        \* the handler that ran last, with what it observed
    effects,       \* what that handler did to the scene and which of the
                   \* subscriber effects it ran, in the order of execution
    probe          \* constraint-engine runs: the object given and the result

vars == <<canvas, objs, activeObject, transforming, history, redoHistory,
          layersPanel, timeout, timers, pending, width, height, elapsed,
          runsSinceCall, burst, outerMug, map, loads, safeZoneVisible,
          bleedVisible, modal, modalTimers, analytics, patternMovable, ops,
          lastOp, effects, probe>>

-----------------------------------------------------------------------------
(* Program constants *)

UnitsPerPx == 10
BLEED_MARGIN == 10
DEBOUNCE_TIME == 300
DEFAULT_CANVAS_WIDTH == 614
DEFAULT_CANVAS_HEIGHT == 230
HistoryCap == 50
snapPx == 10
modalDelay == 3000
fontSize == 40
TextLength == 11     \* the characters of "Sample Text"
marginLeft == 60
marginRight == 60
marginTop == 3
marginBottom == 5

Px(n) == n * UnitsPerPx

(* Object identities.  The four helper objects the designer keeps a        *)
(* reference to have fixed ids; design objects take the least free id.     *)
safeRect == 1
bleedRect == 2
vGuide == 3
hGuide == 4
NoObject == 0

(* the value of #fontSelect and of #colorPicker when a text is added *)
fontSelect == "Arial"
colorPicker == "#000000"

(* this.analytics as the constructor and resetDesign make it *)
NoAnalytics == [elementsCount |-> 0, fonts |-> <<>>, colors |-> <<>>]

(* outerMug.material.map when no texture is assigned; of a texture,       *)
(* latest tells that no sync has run since the one that rasterized it and *)
(* beforeReset that resetDesign has run since                             *)
NoTexture == [id |-> 0, raster |-> <<>>, disposed |-> FALSE,
              latest |-> FALSE, beforeReset |-> FALSE]

-----------------------------------------------------------------------------
(* Bounds of the model *)

MaxOps == 4          \* user operations in one run of Spec
MaxObjects == 3      \* design objects alive at once
MaxLoads == 2        \* textures being decoded at once
MaxPending == 1      \* asynchronous loads in flight at once
MaxCount == 4        \* a count of the analytics beyond it is kept as MaxCount

-----------------------------------------------------------------------------
(* Sequence helpers *)

Range(s) == {s[i] : i \in 1..Len(s)}

Reverse(s) == [i \in 1..Len(s) |-> s[Len(s) + 1 - i]]

RemoveAt(s, i) == [j \in 1..(Len(s) - 1) |-> IF j < i THEN s[j] ELSE s[j + 1]]

(* Array.prototype.splice(index, 0, x) with a 0-based index *)
SpliceIn(s, index, x) ==
    LET from == IF index < 0 THEN Len(s) + index ELSE index
        k == IF from > Len(s) THEN Len(s) ELSE IF from < 0 THEN 0 ELSE from
    IN [j \in 1..(Len(s) + 1) |->
          IF j <= k THEN s[j] ELSE IF j = k + 1 THEN x ELSE s[j - 1]]

IndexOf(s, x) == IF x \in Range(s)
                 THEN CHOOSE i \in 1..Len(s) : s[i] = x /\ \A j \in 1..(i - 1) : s[j] # x
                 ELSE 0


-----------------------------------------------------------------------------
(* Fractions <<n, d>> with d > 0, for scale factors *)

FracLeq(a, b) == a[1] * b[2] <= b[1] * a[2]

FracEq(a, b) == a[1] * b[2] = b[1] * a[2]

(* x * f for a length x; the inputs of the model keep this exact *)
Scaled(x, f) == (x * f[1]) \div f[2]

(* fabric's toFixed(value, NUM_FRACTION_DIGITS = 2) on a scale factor *)
toFixed(f) == <<(200 * f[1] + f[2]) \div (2 * f[2]), 100>>

Abs(x) == IF x < 0 THEN -x ELSE x

-----------------------------------------------------------------------------
(* Scene objects *)

(* the part of an object that fabric's toObject() writes *)
Serialized(o) ==
    [type |-> o.type, left |-> o.left, top |-> o.top,
     width |-> o.width, height |-> o.height,
     scaleX |-> toFixed(o.scaleX), scaleY |-> toFixed(o.scaleY),
     strokeWidth |-> o.strokeWidth, origin |-> o.origin,
     visible |-> o.visible, curved |-> o.curved, charSpacing |-> o.charSpacing,
     fontFamily |-> o.fontFamily, fill |-> o.fill]

(* the bounding box of an object from its current geometry (angle 0) *)
calcCoords(o) ==
    LET w == Scaled(o.width + o.strokeWidth, o.scaleX)
        h == Scaled(o.height + o.strokeWidth, o.scaleY)
    IN IF o.origin = "center"
       THEN [left |-> o.left - w \div 2, top |-> o.top - h \div 2,
             width |-> w, height |-> h]
       ELSE [left |-> o.left, top |-> o.top, width |-> w, height |-> h]

(* obj.setCoords(): refresh the cached corner coordinates *)
setCoords(o) == [o EXCEPT !.aCoords = calcCoords(o)]

(* obj.getBoundingRect(true): read from the cached corner coordinates *)
getBoundingRect(o) == o.aCoords

(* obj.getCenterPoint(): from the current left/top *)
getCenterPoint(o) ==
    IF o.origin = "center"
    THEN [x |-> o.left, y |-> o.top]
    ELSE [x |-> o.left + Scaled(o.width + o.strokeWidth, o.scaleX) \div 2,
          y |-> o.top + Scaled(o.height + o.strokeWidth, o.scaleY) \div 2]

(* obj.setPositionByOrigin(point, "center", "center") *)
setPositionByOrigin(o, x, y) ==
    IF o.origin = "center"
    THEN [o EXCEPT !.left = x, !.top = y]
    ELSE [o EXCEPT !.left = x - Scaled(o.width + o.strokeWidth, o.scaleX) \div 2,
                   !.top = y - Scaled(o.height + o.strokeWidth, o.scaleY) \div 2]

(* a new fabric object: the defaults of fabric.Object, then the options *)
NewObject(type, left, top, w, h, stroke, origin) ==
    [type |-> type, left |-> left, top |-> top, width |-> w, height |-> h,
     scaleX |-> <<1, 1>>, scaleY |-> <<1, 1>>, strokeWidth |-> stroke,
     origin |-> origin, visible |-> TRUE, selectable |-> TRUE, evented |-> TRUE,
     excludeFromLayers |-> FALSE, excludeFromExport |-> FALSE,
     patternImage |-> FALSE, curved |-> FALSE,
     charSpacing |-> 0, baselineOffset |-> 0,
     fontFamily |-> "Times New Roman", fill |-> "rgb(0,0,0)",
     aCoords |-> [left |-> 0, top |-> 0, width |-> 0, height |-> 0]]

(* new fabric.Rect({...}) for the safe zone, canvas w x h *)
NewSafeRect(w, h) ==
    [NewObject("rect", Px(marginLeft), Px(marginTop),
               w - Px(marginLeft + marginRight), h - Px(marginTop + marginBottom),
               4, "left")
     EXCEPT !.selectable = FALSE, !.evented = FALSE,
            !.excludeFromLayers = TRUE, !.excludeFromExport = TRUE]

(* new fabric.Rect({...}) for the bleed zone, canvas w x h *)
NewBleedRect(w, h) ==
    [NewObject("rect", -Px(BLEED_MARGIN), -Px(BLEED_MARGIN),
               w + Px(BLEED_MARGIN) * 2, h + Px(BLEED_MARGIN) * 2,
               Px(1), "left")
     EXCEPT !.selectable = FALSE, !.evented = FALSE,
            !.excludeFromLayers = TRUE, !.excludeFromExport = TRUE]

(* new fabric.Line([x1, y1, x2, y2], {...}) of a centre guide, hidden *)
NewGuide(x1, y1, x2, y2) ==
    [NewObject("line", x1, y1, x2 - x1, y2 - y1, Px(1), "left")
     EXCEPT !.selectable = FALSE, !.evented = FALSE, !.visible = FALSE,
            !.excludeFromLayers = TRUE, !.excludeFromExport = TRUE]

(* new fabric.IText(text, {...}) of the add-text handler; w x h is the    *)
(* measured size of the text                                              *)
NewIText(cw, ch, w, h) ==
    [NewObject("i-text", cw \div 2, ch \div 2, w, h, 0, "center")
     EXCEPT !.fontFamily = fontSelect, !.fill = colorPicker]

(* Math.min(0.3, (canvas.width - 40) / img.width,                        *)
(*          (canvas.height - 40) / img.height)                            *)
uploadScale(cw, ch, w, h) ==
    LET a == <<3, 10>>
        b == <<cw - Px(40), w>>
        c == <<ch - Px(40), h>>
        ab == IF FracLeq(a, b) THEN a ELSE b
    IN IF FracLeq(ab, c) THEN ab ELSE c

(* the image of handleImageUpload (natural size w x h), scaled and centred *)
NewUpload(cw, ch, w, h) ==
    [NewObject("image", cw \div 2, ch \div 2, w, h, 0, "center")
     EXCEPT !.scaleX = uploadScale(cw, ch, w, h),
            !.scaleY = uploadScale(cw, ch, w, h)]

(* Math.max(safeW / fImg.width, safeH / fImg.height) *)
patternScale(cw, ch, w, h) ==
    LET a == <<cw - Px(marginLeft + marginRight), w>>
        b == <<ch - Px(marginTop + marginBottom), h>>
    IN IF FracLeq(a, b) THEN b ELSE a

(* the image of addPatternImage (natural size w x h), scaled to cover the *)
(* safe zone, centred and inert                                           *)
NewPattern(cw, ch, w, h) ==
    [NewObject("image", cw \div 2, ch \div 2, w, h, 0, "center")
     EXCEPT !.scaleX = patternScale(cw, ch, w, h),
            !.scaleY = patternScale(cw, ch, w, h),
            !.selectable = FALSE, !.evented = FALSE]

(* new fabric.Path("M 100 200 Q 200 100 300 200") of createCurvedText *)
NewCurvePath ==
    [NewObject("path", Px(100), Px(150), Px(200), Px(50), Px(2), "left")
     EXCEPT !.selectable = FALSE, !.evented = FALSE, !.excludeFromExport = TRUE]

(* an object revived from its serialized form by loadFromJSON: custom    *)
(* properties are not part of the serialized form, so they take the      *)
(* defaults                                                              *)
Enlivened(j) ==
    [NewObject(j.type, j.left, j.top, j.width, j.height, j.strokeWidth, j.origin)
     EXCEPT !.scaleX = j.scaleX, !.scaleY = j.scaleY, !.visible = j.visible,
            !.curved = j.curved, !.charSpacing = j.charSpacing,
            !.fontFamily = j.fontFamily, !.fill = j.fill]

-----------------------------------------------------------------------------
(* The designer's mutable state as one record, so that a handler is the    *)
(* composition of the calls it makes, in the order of the code.            *)

Cur ==
    [canvas |-> canvas, objs |-> objs, activeObject |-> activeObject,
     history |-> history, redoHistory |-> redoHistory,
     layersPanel |-> layersPanel, timeout |-> timeout, timers |-> timers,
     pending |-> pending, width |-> width, height |-> height,
     elapsed |-> elapsed, runsSinceCall |-> runsSinceCall, burst |-> burst,
     modal |-> modal, modalTimers |-> modalTimers, map |-> map, loads |-> loads,
     safeZoneVisible |-> safeZoneVisible, bleedVisible |-> bleedVisible,
     analytics |-> analytics, patternMovable |-> patternMovable,
     effects |-> <<>>]

(* the call or event e is recorded in the log of the running handler *)
Logged(s, e) == [s EXCEPT !.effects = Append(@, e)]

HelperIds == {safeRect, bleedRect, vGuide, hGuide}

(* ids some reference can still reach: the designer's four references,    *)
(* the canvas, the closures of the layer entries, the active object, the  *)
(* object under the mouse and the targets of the clones being made        *)
Reachable(s) ==
    (HelperIds \cup Range(s.canvas) \cup Range(s.layersPanel)
       \cup {s.activeObject, transforming}
       \cup {p.target : p \in {q \in Range(s.pending) : q.kind = "clone"}})
    \ {NoObject}

(* objects no reference reaches are dropped (the garbage collector) *)
Collect(s) ==
    [s EXCEPT !.objs = [id \in (DOMAIN s.objs) \cap Reachable(s) |-> s.objs[id]]]

(* the identity of a newly constructed object *)
FreshId(s) ==
    CHOOSE i \in (hGuide + 1)..(hGuide + 1 + Cardinality(DOMAIN s.objs)) :
        /\ i \notin DOMAIN s.objs
        /\ \A j \in (hGuide + 1)..(i - 1) : j \in DOMAIN s.objs

PutObj(s, id, o) ==
    [s EXCEPT !.objs = [k \in (DOMAIN s.objs) \cup {id} |->
                          IF k = id THEN o ELSE s.objs[k]]]

(* JSON.stringify(this.canvas.toJSON()): the objects in paint order,      *)
(* without those marked excludeFromExport                                 *)
toJSON(s) ==
    LET kept == SelectSeq(s.canvas, LAMBDA id : ~s.objs[id].excludeFromExport)
    IN [i \in 1..Len(kept) |-> Serialized(s.objs[kept[i]])]

(* a saveHistory that makes room by dropping the entry it has just pushed *)
saveHistoryEvictsNewest(s) ==
    LET pushed == Append(s.history, toJSON(s))
    IN [s EXCEPT !.history = IF Len(pushed) > HistoryCap
                             THEN SubSeq(pushed, 1, HistoryCap) ELSE pushed,
                 !.redoHistory = <<>>]

(* a debounce that sets a new timer without clearing the pending one *)
debounceKeepsPending(s, wait) ==
    LET handle == CHOOSE h \in 1..(Cardinality(DOMAIN s.timers) + 1) :
                      /\ h \notin DOMAIN s.timers
                      /\ \A g \in 1..(h - 1) : g \in DOMAIN s.timers
    IN [s EXCEPT !.timers = [h \in (DOMAIN s.timers) \cup {handle} |->
                               IF h = handle THEN wait ELSE s.timers[h]],
                 !.timeout = handle,
                 !.elapsed = 0,
                 !.runsSinceCall = 0,
                 !.burst = IF DOMAIN s.timers = {} THEN 1
                           ELSE 2]

saveHistory(s) ==
    LET currentState == toJSON(s)
        pushed == Append(s.history, currentState)
    IN Logged([s EXCEPT !.history = IF Len(pushed) > HistoryCap THEN Tail(pushed)
                                    ELSE pushed,
                         !.redoHistory = <<>>],
              "saveHistory")

(* the filter of updateLayersPanel and reorderLayers *)
designObjects(s) ==
    SelectSeq(s.canvas,
              LAMBDA id : /\ id # safeRect
                          /\ id # bleedRect
                          /\ id # vGuide
                          /\ id # hGuide
                          /\ ~s.objs[id].excludeFromLayers)

updateLayersPanel(s) ==
    Logged([s EXCEPT !.layersPanel = Reverse(designObjects(s))],
           "updateLayersPanel")

(* the function debounce() returns: clearTimeout(timeout), then           *)
(* timeout = setTimeout(func, wait)                                       *)
debounce(s, wait) ==
    LET cleared == [h \in (DOMAIN s.timers) \ {s.timeout} |-> s.timers[h]]
        handle == CHOOSE h \in 1..(Cardinality(DOMAIN cleared) + 1) :
                      /\ h \notin DOMAIN cleared
                      /\ \A g \in 1..(h - 1) : g \in DOMAIN cleared
    IN [s EXCEPT !.timers = [h \in (DOMAIN cleared) \cup {handle} |->
                               IF h = handle THEN wait ELSE cleared[h]],
                 !.timeout = handle,
                 !.elapsed = 0,
                 !.runsSinceCall = 0,
                 !.burst = IF DOMAIN s.timers = {} THEN 1
                           ELSE 2]

debouncedUpdate(s) == Logged(debounce(s, DEBOUNCE_TIME), "debouncedUpdate")

(* counts[key] = (counts[key] || 0) + 1 for every key of keys *)
tally(counts, keys) ==
    [k \in (DOMAIN counts) \cup Range(keys) |->
        LET n == (IF k \in DOMAIN counts THEN counts[k] ELSE 0)
                     + Cardinality({i \in DOMAIN keys : keys[i] = k})
        IN IF n > MaxCount THEN MaxCount ELSE n]

updateAnalytics(s) ==
    LET objects == SelectSeq(s.canvas,
                             LAMBDA id : /\ ~s.objs[id].excludeFromLayers
                                         /\ ~s.objs[id].excludeFromExport)
        texts == SelectSeq(objects, LAMBDA id : s.objs[id].type = "i-text")
    IN Logged([s EXCEPT !.analytics =
                  [elementsCount |-> Len(objects),
                   fonts |-> tally(@.fonts,
                                   [i \in DOMAIN texts |-> s.objs[texts[i]].fontFamily]),
                   colors |-> tally(@.colors,
                                    [i \in DOMAIN texts |-> s.objs[texts[i]].fill])]],
              "updateAnalytics")

discardActiveObject(s) == [s EXCEPT !.activeObject = NoObject]

setActiveObject(s, id) == [s EXCEPT !.activeObject = id]

(* this.canvas.on("object:added", ...) *)
onObjectAdded(s) ==
    updateAnalytics(debouncedUpdate(updateLayersPanel(saveHistory(
        Logged(s, "object:added")))))

(* this.canvas.on("object:removed", ...) *)
onObjectRemoved(s) ==
    updateAnalytics(debouncedUpdate(updateLayersPanel(saveHistory(
        discardActiveObject(Logged(s, "object:removed"))))))

(* canvas.add(obj): push, setCoords, fire object:added *)
canvasAdd(s, id) ==
    onObjectAdded(Logged([s EXCEPT !.canvas = Append(@, id),
                                   !.objs[id] = setCoords(@)],
                         "add"))

(* canvas.insertAt(obj, index): splice, setCoords, fire object:added *)
canvasInsertAt(s, id, index) ==
    onObjectAdded(Logged([s EXCEPT !.canvas = SpliceIn(@, index, id),
                                   !.objs[id] = setCoords(@)],
                         "insertAt"))

(* canvas.remove(obj): splice out and fire object:removed, if it is there *)
canvasRemove(s, id) ==
    IF id \in Range(s.canvas)
    THEN onObjectRemoved(Logged([s EXCEPT !.canvas = RemoveAt(@, IndexOf(@, id))],
                                "remove"))
    ELSE s

(* canvas.remove.apply(canvas, objects): one object after the other, the *)
(* objects that are not on the canvas skipped                             *)
RECURSIVE canvasRemoveAll(_, _)
canvasRemoveAll(s, ids) ==
    IF ids = <<>> THEN s
    ELSE IF Head(ids) \in Range(s.canvas)
    THEN canvasRemoveAll(canvasRemove(s, Head(ids)), Tail(ids))
    ELSE canvasRemoveAll(s, Tail(ids))

(* canvas.clear(): removes every object, each removal firing its event *)
(* every completion still pending is marked: the scene it was requested  *)
(* for has been cleared                                                   *)
canvasClear(s) ==
    LET s1 == discardActiveObject(canvasRemoveAll(s, s.canvas))
    IN [s1 EXCEPT !.pending = [i \in DOMAIN @ |-> [@[i] EXCEPT !.cleared = TRUE]]]

(* canvas.sendToBack(obj): no event *)
sendToBack(s, id) ==
    IF id \in Range(s.canvas)
    THEN Logged([s EXCEPT !.canvas = <<id>> \o RemoveAt(@, IndexOf(@, id))],
                "sendToBack")
    ELSE s

(* the objects of a serialized state, revived and inserted one by one *)
RECURSIVE insertEnlivened(_, _, _)
insertEnlivened(s, state, index) ==
    IF index >= Len(state) THEN s
    ELSE LET id == FreshId(s)
             inserted == canvasInsertAt(PutObj(s, id, Enlivened(state[index + 1])),
                                        id, index)
         IN IF id \in Range(inserted.canvas)
            THEN insertEnlivened(inserted, state, index + 1)
            ELSE inserted

(* the callback undo, redo and loadVersion give to loadFromJSON *)
onLoaded(s) == updateAnalytics(debouncedUpdate(updateLayersPanel(s)))

(* canvas.loadFromJSON(state, callback), from the moment the objects of   *)
(* the state are revived: clear, insert, callback                         *)
loadFromJSON(s, state) ==
    onLoaded(insertEnlivened(Collect(canvasClear(s)), state, 0))

-----------------------------------------------------------------------------
(* Constraint engine *)

(* whether checkBounds shows the bleed warning for bounding box b *)
outsideBleed(b, bleed) ==
    \/ b.left < bleed.left
    \/ b.left + b.width > bleed.left + bleed.width
    \/ b.top < bleed.top
    \/ b.top + b.height > bleed.top + bleed.height

(* a checkBounds that clamps left/top with the box it measured on entry   *)
(* and fits the scale afterwards                                          *)
clampTextBeforeFit(o, safe) ==
    LET halfW == Scaled(o.width, o.scaleX) \div 2
        halfH == Scaled(o.height, o.scaleY) \div 2
        minX == safe.left + halfW
        maxX == safe.left + safe.width - halfW
        minY == safe.top + halfH
        maxY == safe.top + safe.height - halfH
        left1 == IF o.left < minX THEN minX ELSE o.left
        left2 == IF left1 > maxX THEN maxX ELSE left1
        top1 == IF o.top < minY THEN minY ELSE o.top
        top2 == IF top1 > maxY THEN maxY ELSE top1
        fitX == o.width * o.scaleX[1] > safe.width * o.scaleX[2]
        fitY == o.height * o.scaleY[1] > safe.height * o.scaleY[2]
    IN [o EXCEPT !.scaleX = IF fitX THEN <<safe.width, o.width>> ELSE @,
                 !.scaleY = IF fitY THEN <<safe.height, o.height>> ELSE @,
                 !.left = left2, !.top = top2]

(* the i-text branch of checkBounds: fit the scale, then clamp left/top *)
clampText(o, safe) ==
    LET maxWidth == safe.width
        maxHeight == safe.height
        fitX == o.width * o.scaleX[1] > maxWidth * o.scaleX[2]
        fitY == o.height * o.scaleY[1] > maxHeight * o.scaleY[2]
        scaleX == IF fitX THEN <<maxWidth, o.width>> ELSE o.scaleX
        scaleY == IF fitY THEN <<maxHeight, o.height>> ELSE o.scaleY
        objWidth == IF fitX THEN maxWidth ELSE Scaled(o.width, o.scaleX)
        objHeight == IF fitY THEN maxHeight ELSE Scaled(o.height, o.scaleY)
        objHalfW == objWidth \div 2
        objHalfH == objHeight \div 2
        minX == safe.left + objHalfW
        maxX == safe.left + safe.width - objHalfW
        minY == safe.top + objHalfH
        maxY == safe.top + safe.height - objHalfH
        left1 == IF o.left < minX THEN minX ELSE o.left
        left2 == IF left1 > maxX THEN maxX ELSE left1
        top1 == IF o.top < minY THEN minY ELSE o.top
        top2 == IF top1 > maxY THEN maxY ELSE top1
    IN [o EXCEPT !.scaleX = scaleX, !.scaleY = scaleY,
                 !.left = left2, !.top = top2]

(* showModal(message): the modal is displayed and a timer is set that     *)
(* hides it                                                               *)
showModal(s) ==
    [s EXCEPT !.modal = TRUE, !.modalTimers = Append(@, modalDelay)]

checkBounds(s, id) ==
    IF id = NoObject THEN s
    ELSE LET obj == s.objs[id]
             bounds == getBoundingRect(obj)
             safe == getBoundingRect(s.objs[safeRect])
             bleed == getBoundingRect(s.objs[bleedRect])
             warned == IF outsideBleed(bounds, bleed) THEN showModal(s) ELSE s
         IN IF obj.type = "i-text"
            THEN [warned EXCEPT !.objs[id] = clampText(obj, safe)]
            ELSE warned

snapToCenter(s, id) ==
    LET obj == s.objs[id]
        center == getCenterPoint(obj)
        snapX == Abs(center.x - s.width \div 2) < Px(snapPx)
        snapY == Abs(center.y - s.height \div 2) < Px(snapPx)
        obj1 == IF snapX THEN setPositionByOrigin(obj, s.width \div 2, center.y)
                ELSE obj
        obj2 == IF snapY THEN setPositionByOrigin(obj1, center.x, s.height \div 2)
                ELSE obj1
    IN [s EXCEPT !.objs = [k \in DOMAIN s.objs |->
                             IF k = id THEN obj2
                             ELSE IF k = vGuide THEN [s.objs[k] EXCEPT !.visible = snapX]
                             ELSE IF k = hGuide THEN [s.objs[k] EXCEPT !.visible = snapY]
                             ELSE s.objs[k]]]

-----------------------------------------------------------------------------
(* Texture synchronisation *)

(* updateMugTexture: with the outer mesh present, every object marked     *)
(* excludeFromExport on the canvas is hidden for the rasterisation and    *)
(* shown after it                                                         *)
setExportHelpers(s, shown) ==
    [s EXCEPT !.objs = [k \in DOMAIN s.objs |->
                          IF k \in Range(s.canvas) /\ s.objs[k].excludeFromExport
                          THEN [s.objs[k] EXCEPT !.visible = shown]
                          ELSE s.objs[k]]]

(* what canvas.toDataURL draws of one object *)
Drawn(o) ==
    [type |-> o.type, left |-> o.left, top |-> o.top, width |-> o.width,
     height |-> o.height, scaleX |-> o.scaleX, scaleY |-> o.scaleY,
     curved |-> o.curved, helper |-> o.excludeFromExport]

(* canvas.toDataURL(): the visible objects in paint order *)
toDataURL(s) ==
    LET shown == SelectSeq(s.canvas, LAMBDA id : s.objs[id].visible)
    IN [i \in 1..Len(shown) |-> Drawn(s.objs[shown[i]])]

(* the identity of a newly created texture *)
FreshTexture(s) ==
    LET used == {s.map.id} \cup {s.loads[i].id : i \in 1..Len(s.loads)}
    IN CHOOSE n \in 1..(Cardinality(used) + 1) :
           n \notin used /\ \A m \in 1..(n - 1) : m \in used

updateMugTexture(s) ==
    IF ~outerMug THEN s
    ELSE LET hidden == setExportHelpers(s, FALSE)
             dataURL == toDataURL(hidden)
             shown == setExportHelpers(hidden, TRUE)
             older == [i \in DOMAIN s.loads |-> [s.loads[i] EXCEPT !.latest = FALSE]]
         IN [shown EXCEPT !.loads = Append(older, [id |-> FreshTexture(s),
                                                   raster |-> dataURL,
                                                   disposed |-> FALSE,
                                                   latest |-> TRUE,
                                                   beforeReset |-> FALSE]),
                          !.map.latest = FALSE]

(* the onLoad callback of TextureLoader.load: the previous texture is     *)
(* disposed and the new one assigned                                      *)
textureLoaded(s, i) ==
    [s EXCEPT !.map = s.loads[i], !.loads = RemoveAt(@, i)]

(* a failure path that drops the texture the mug has *)
textureFailedClearsMap(s, i) ==
    [s EXCEPT !.map = NoTexture, !.loads = RemoveAt(@, i)]

(* the decoding of the data URL fails: load was given no onError callback *)
textureFailed(s, i) ==
    [s EXCEPT !.loads = RemoveAt(@, i)]

(* time passes: every pending timer comes dt closer *)
advance(s, dt) ==
    [s EXCEPT !.timers = [h \in DOMAIN s.timers |-> s.timers[h] - dt],
              !.modalTimers = [i \in DOMAIN s.modalTimers |-> s.modalTimers[i] - dt],
              !.elapsed = IF s.elapsed + dt > 2 * DEBOUNCE_TIME
                          THEN 2 * DEBOUNCE_TIME ELSE s.elapsed + dt]

(* the timer callback of debounce: func.apply(this, args) *)
runTimer(s, h) ==
    LET ran == updateMugTexture(s)
    IN [ran EXCEPT !.timers = [g \in (DOMAIN s.timers) \ {h} |-> s.timers[g]],
                   !.runsSinceCall = IF s.runsSinceCall < 2
                                     THEN s.runsSinceCall + 1 ELSE 2,
                   !.burst = IF DOMAIN s.timers = {h} THEN 0 ELSE s.burst]

-----------------------------------------------------------------------------
(* Inputs of the model *)

(* measured sizes of the texts a user adds: 200px x 45.2px (fontSize 40) *)
TextSizes == {<<Px(200), 452>>}

(* natural sizes of uploaded images: 400px x 300px *)
ImageSizes == {<<Px(400), Px(300)>>}

(* the sliders of the text panel: letterSpacing 100 with baselineOffset 0, *)
(* and letterSpacing 0 with baselineOffset 10px                           *)
TextSliderValues == {<<100, 0>>, <<0, Px(10)>>}

(* the canvas wrapper after a resize: 646px x 300px gives the canvas its  *)
(* full size, 339px x 300px a canvas of 307px x 115px                     *)
ContainerSizes == {<<Px(646), Px(300)>>, <<Px(339), Px(300)>>}

(* where a drag of SpecText leaves the centre of the text: left of the    *)
(* safe zone, and under it                                                *)
TextDragPoints == {<<Px(20), Px(119)>>, <<Px(300), Px(225)>>}

(* the scales a scaling gesture of SpecText leaves: 3 times the size *)
TextScales == {<<3, 1>>}

(* natural sizes of the pattern images: 500px x 250px *)
PatternSizes == {<<Px(500), Px(250)>>}

(* where a drag leaves the centre of the object: one point off every      *)
(* centre line and inside the safe zone, one left of the safe zone and    *)
(* 4px under the horizontal centre line                                   *)
DragPoints == {<<Px(200), Px(60)>>, <<Px(20), Px(119)>>}

-----------------------------------------------------------------------------
(* The state after the constructor: setupFabric has put the four helper   *)
(* objects on the canvas before any listener is registered, so nothing    *)
(* has been snapshotted; loadMug has not completed.                       *)

InitObjs ==
    LET w == Px(DEFAULT_CANVAS_WIDTH)
        h == Px(DEFAULT_CANVAS_HEIGHT)
    IN [id \in HelperIds |->
          IF id = safeRect THEN setCoords(NewSafeRect(w, h))
          ELSE IF id = bleedRect THEN setCoords(NewBleedRect(w, h))
          ELSE IF id = vGuide THEN setCoords(NewGuide(w \div 2, 0, w \div 2, h))
          ELSE setCoords(NewGuide(0, h \div 2, w, h \div 2))]

Init ==
    /\ canvas = <<bleedRect, safeRect, vGuide, hGuide>>
    /\ objs = InitObjs
    /\ activeObject = NoObject
    /\ transforming = NoObject
    /\ history = <<>>
    /\ redoHistory = <<>>
    /\ layersPanel = <<>>
    /\ timeout = 0
    /\ timers = <<>>
    /\ pending = <<>>
    /\ width = Px(DEFAULT_CANVAS_WIDTH)
    /\ height = Px(DEFAULT_CANVAS_HEIGHT)
    /\ elapsed = 0
    /\ runsSinceCall = 0
    /\ burst = 0
    /\ outerMug = FALSE
    /\ map = NoTexture
    /\ loads = <<>>
    /\ safeZoneVisible = TRUE
    /\ bleedVisible = TRUE
    /\ modal = FALSE
    /\ modalTimers = <<>>
    /\ analytics = NoAnalytics
    /\ patternMovable = FALSE
    /\ ops = 0
    /\ lastOp = [name |-> "constructor"]
    /\ effects = <<>>
    /\ probe = [fn |-> "none"]

(* the state a handler leaves behind *)
Commit(s0, op) ==
    LET s == Collect(s0)
    IN /\ canvas' = s.canvas
       /\ objs' = s.objs
       /\ activeObject' = s.activeObject
       /\ history' = s.history
       /\ redoHistory' = s.redoHistory
       /\ layersPanel' = s.layersPanel
       /\ timeout' = s.timeout
       /\ timers' = s.timers
       /\ pending' = s.pending
       /\ width' = s.width
       /\ height' = s.height
       /\ elapsed' = s.elapsed
       /\ runsSinceCall' = s.runsSinceCall
       /\ burst' = s.burst
       /\ map' = s.map
       /\ loads' = s.loads
       /\ safeZoneVisible' = s.safeZoneVisible
       /\ bleedVisible' = s.bleedVisible
       /\ modal' = s.modal
       /\ modalTimers' = s.modalTimers
       /\ analytics' = s.analytics
       /\ patternMovable' = s.patternMovable
       /\ lastOp' = op
       /\ effects' = s.effects

(* a user gesture: the mouse is free and the run has operations left *)
UserCan == transforming = NoObject /\ ops < MaxOps

UserOp == /\ ops' = ops + 1
          /\ UNCHANGED <<transforming, outerMug, probe>>

DesignCount == Cardinality(Range(canvas) \ HelperIds)

-----------------------------------------------------------------------------
(* Handlers *)

(* addTextConfirm click *)
addText(s, size) ==
    LET id == FreshId(s)
        fabricText == NewIText(s.width, s.height, size[1], size[2])
        added == canvasAdd(PutObj(s, id, fabricText), id)
        checked == checkBounds(setActiveObject(added, id), id)
    IN [checked EXCEPT !.objs[id] = setCoords(@)]

AddTextConfirm ==
    /\ UserCan
    /\ DesignCount < MaxObjects
    /\ \E size \in TextSizes :
          Commit(addText(Cur, size), [name |-> "addText"])
    /\ UserOp

(* mouse move while dragging object id: fabric has put its centre at     *)
(* point p and fires object:moving                                       *)
objectMoving(s, id, p) ==
    checkBounds(snapToCenter(
        [s EXCEPT !.objs[id] = setPositionByOrigin(@, p[1], p[2]),
                  !.activeObject = id], id), id)

ObjectMoving ==
    /\ ops < MaxOps
    /\ \E i \in 1..Len(canvas), p \in DragPoints :
          LET id == canvas[i]
          IN /\ transforming \in {NoObject, id}
             /\ objs[id].selectable /\ objs[id].evented /\ objs[id].visible
             /\ transforming' = id
             /\ Commit(objectMoving(Cur, id, p), [name |-> "object:moving"])
    /\ ops' = ops + 1
    /\ UNCHANGED <<outerMug, probe>>

(* mouse move while scaling object id: fabric has set its scale to f and *)
(* fires object:scaling                                                  *)
objectScaling(s, id, f) ==
    checkBounds([s EXCEPT !.objs[id].scaleX = f, !.objs[id].scaleY = f,
                          !.activeObject = id], id)

(* mouse up after a transform: fabric refreshes the coordinates of the   *)
(* target and fires object:modified                                      *)
objectModified(s, target) ==
    LET s1 == [s EXCEPT !.objs = [k \in DOMAIN s.objs |->
                                    IF k \in {vGuide, hGuide}
                                    THEN [s.objs[k] EXCEPT !.visible = FALSE]
                                    ELSE IF k = target THEN setCoords(s.objs[k])
                                    ELSE s.objs[k]]]
        s2 == checkBounds(s1, target)
        s3 == [s2 EXCEPT !.objs[target] = setCoords(@)]
    IN updateAnalytics(debouncedUpdate(updateLayersPanel(saveHistory(
           Logged(s3, "object:modified")))))

ObjectModified ==
    /\ transforming # NoObject
    /\ transforming' = NoObject
    /\ Commit(objectModified(Cur, transforming), [name |-> "object:modified"])
    /\ UNCHANGED <<outerMug, ops, probe>>

(* deleteControl mouseUpHandler, on the selected object *)
deleteControl(s, target) ==
    updateAnalytics(debouncedUpdate(updateLayersPanel(saveHistory(
        discardActiveObject(canvasRemove(s, target))))))

DeleteControl ==
    /\ UserCan
    /\ activeObject \in Range(canvas)
    /\ Commit(deleteControl(Cur, activeObject), [name |-> "deleteControl"])
    /\ UserOp

(* click on a layer entry: setActiveObject *)
LayerSelect ==
    /\ UserCan
    /\ \E k \in 1..Len(layersPanel) :
          /\ activeObject # layersPanel[k]
          /\ Commit(setActiveObject(Cur, layersPanel[k]), [name |-> "layerSelect"])
    /\ UserOp

(* the visibility button of a layer entry *)
layerVisibility(s, obj) ==
    debouncedUpdate([s EXCEPT !.objs[obj].visible = ~@])

LayerVisibility ==
    /\ UserCan
    /\ \E k \in 1..Len(layersPanel) :
          Commit(layerVisibility(Cur, layersPanel[k]),
                 [name |-> "layerVisibility", redoBefore |-> Len(redoHistory)])
    /\ UserOp

(* the lock button of a layer entry *)
layerLock(s, obj) ==
    debouncedUpdate([s EXCEPT !.objs[obj].selectable = ~@,
                              !.objs[obj].evented = ~@])

LayerLock ==
    /\ UserCan
    /\ \E k \in 1..Len(layersPanel) :
          Commit(layerLock(Cur, layersPanel[k]),
                 [name |-> "layerLock", redoBefore |-> Len(redoHistory)])
    /\ UserOp

(* the delete button of a layer entry *)
layerDelete(s, obj) ==
    updateAnalytics(debouncedUpdate(updateLayersPanel(saveHistory(
        discardActiveObject(canvasRemove(s, obj))))))

LayerDelete ==
    /\ UserCan
    /\ \E k \in 1..Len(layersPanel) :
          Commit(layerDelete(Cur, layersPanel[k]), [name |-> "layerDelete"])
    /\ UserOp

(* reorderLayers(fromIndex, toIndex), both 0-based *)
reorderLayers(s, fromIndex, toIndex) ==
    LET objects == designObjects(s)
        draggedObject == objects[fromIndex + 1]
        removed == canvasRemove(s, draggedObject)
        inserted ==
            IF toIndex = 0
            THEN canvasInsertAt(removed, draggedObject, Len(removed.canvas) - 1)
            ELSE LET targetObject == objects[toIndex + 1]
                     targetCanvasIndex == IndexOf(removed.canvas, targetObject) - 1
                 IN canvasInsertAt(removed, draggedObject, targetCanvasIndex)
    IN debouncedUpdate(updateLayersPanel(saveHistory(inserted)))

(* dragstart on the layer entry shown at draggedIndex, drop on the entry  *)
(* shown at targetIndex (0-based positions in the list as displayed)      *)
LayerDrop ==
    /\ UserCan
    /\ \E draggedIndex, targetIndex \in 0..(Len(layersPanel) - 1) :
          /\ draggedIndex # targetIndex
          /\ Commit(reorderLayers(Cur, draggedIndex, targetIndex),
                    [name |-> "layerDrop", dragged |-> layersPanel[draggedIndex + 1],
                     from |-> draggedIndex, to |-> targetIndex,
                     layers |-> Len(layersPanel), before |-> canvas])
    /\ UserOp

(* createCurvedText(textObject) *)
createCurvedText(s, textObject) ==
    LET path == FreshId(s)
        s1 == PutObj(s, path, NewCurvePath)
        s2 == [s1 EXCEPT !.objs[textObject].curved = TRUE]
    IN canvasAdd(s2, path)

(* toggleCurvedText(enabled): straightenText is not defined, so the call  *)
(* with enabled = false throws before it changes anything                 *)
toggleCurvedText(s, enabled) ==
    IF s.activeObject # NoObject /\ s.objs[s.activeObject].type = "i-text"
    THEN IF enabled THEN createCurvedText(s, s.activeObject) ELSE s
    ELSE s

CurvedTextChange ==
    /\ UserCan
    /\ DesignCount < MaxObjects
    /\ \E enabled \in BOOLEAN :
          Commit(toggleCurvedText(Cur, enabled),
                 [name |-> "curvedText", enabled |-> enabled])
    /\ UserOp

(* whether reviving a serialized state has to wait for an image to load *)
HasImage(state) == \E i \in 1..Len(state) : state[i].type = "image"

(* canvas.loadFromJSON(state, callback) as called: at once when nothing   *)
(* has to load, otherwise when the images have loaded                     *)
callLoadFromJSON(s, state) ==
    IF HasImage(state)
    THEN [s EXCEPT !.pending = Append(@, [kind |-> "loadFromJSON", state |-> state,
                                          cleared |-> FALSE])]
    ELSE loadFromJSON(s, state)

Last(q) == q[Len(q)]

Front(q) == SubSeq(q, 1, Len(q) - 1)

(* an undo that pops whenever the stack is not empty *)
undoPopsLast(s) ==
    IF Len(s.history) > 0
    THEN LET s1 == [s EXCEPT !.redoHistory = Append(@, Last(s.history)),
                             !.history = Front(@)]
         IN IF Len(s1.history) > 0
            THEN callLoadFromJSON(s1, Last(s1.history)) ELSE s1
    ELSE s

(* an undo that copies the top of the undo stack and leaves it there *)
undoKeepsTop(s) ==
    IF Len(s.history) > 1
    THEN LET s1 == [s EXCEPT !.redoHistory = Append(@, Last(s.history))]
         IN callLoadFromJSON(s1, s1.history[Len(s1.history) - 1])
    ELSE s

(* undoBtn click *)
undo(s) ==
    IF Len(s.history) > 1
    THEN LET s1 == [s EXCEPT !.redoHistory = Append(@, Last(s.history)),
                             !.history = Front(@)]
             lastState == IF Len(s1.history) > 0 THEN Last(s1.history) ELSE <<>>
         IN IF Len(s1.history) > 0 THEN callLoadFromJSON(s1, lastState) ELSE s1
    ELSE s

UndoClick ==
    /\ UserCan
    /\ Len(history) > 1 /\ HasImage(history[Len(history) - 1])
          => Len(pending) < MaxPending
    /\ Commit(undo(Cur),
              [name |-> "undo", historyBefore |-> Len(history),
               scene |-> toJSON(Cur),
               undone |-> IF Len(history) > 0 THEN Last(history) ELSE <<>>,
               target |-> IF Len(history) > 1 THEN history[Len(history) - 1] ELSE <<>>])
    /\ UserOp

redo(s) ==
    IF Len(s.redoHistory) > 0
    THEN LET state == Last(s.redoHistory)
             s1 == [s EXCEPT !.redoHistory = Front(@),
                             !.history = Append(@, toJSON(s))]
         IN callLoadFromJSON(s1, state)
    ELSE s

RedoCall ==
    /\ UserCan
    /\ Len(redoHistory) > 0 /\ HasImage(Last(redoHistory))
          => Len(pending) < MaxPending
    /\ Commit(redo(Cur),
              [name |-> "redo", redoBefore |-> Len(redoHistory),
               target |-> IF Len(redoHistory) > 0 THEN Last(redoHistory) ELSE <<>>])
    /\ UserOp

(* canvas.add(a, b, c, d): all are pushed, then object:added fires for each *)
RECURSIVE pushAll(_, _)
pushAll(s, ids) ==
    IF ids = <<>> THEN s
    ELSE IF Head(ids) \in Range(s.canvas) THEN pushAll(s, Tail(ids))
    ELSE pushAll(Logged([s EXCEPT !.canvas = Append(@, Head(ids))], "add"),
                 Tail(ids))

RECURSIVE fireAdded(_, _)
fireAdded(s, ids) ==
    IF ids = <<>> THEN s
    ELSE IF Head(ids) \in Range(s.canvas)
    THEN fireAdded(onObjectAdded([s EXCEPT !.objs[Head(ids)] = setCoords(@)]),
                   Tail(ids))
    ELSE fireAdded(s, Tail(ids))

canvasAddAll(s, ids) == fireAdded(pushAll(s, ids), ids)

(* a reset that leaves the two stacks as its own events made them *)
resetKeepsStacks(s) ==
    LET s1 == canvasClear(s)
        s2 == PutObj(PutObj(s1, safeRect, NewSafeRect(s.width, s.height)),
                     bleedRect, NewBleedRect(s.width, s.height))
        s3 == canvasAddAll(s2, <<bleedRect, safeRect, vGuide, hGuide>>)
        s4 == sendToBack(sendToBack(s3, bleedRect), safeRect)
        s5 == [s4 EXCEPT !.map = IF outerMug THEN NoTexture ELSE @,
                         !.loads = [i \in DOMAIN @ |-> [@[i] EXCEPT !.beforeReset = TRUE]],
                         !.analytics = NoAnalytics]
    IN debouncedUpdate(updateAnalytics(updateLayersPanel(s5)))

resetDesign(s) ==
    LET s1 == canvasClear(s)
        s2 == PutObj(PutObj(s1, safeRect, NewSafeRect(s.width, s.height)),
                     bleedRect, NewBleedRect(s.width, s.height))
        s3 == canvasAddAll(s2, <<bleedRect, safeRect, vGuide, hGuide>>)
        s4 == sendToBack(sendToBack(s3, bleedRect), safeRect)
        s5 == [s4 EXCEPT !.history = <<>>, !.redoHistory = <<>>,
                         !.map = IF outerMug THEN NoTexture ELSE @,
                         !.loads = [i \in DOMAIN @ |-> [@[i] EXCEPT !.beforeReset = TRUE]],
                         !.analytics = NoAnalytics]
    IN debouncedUpdate(updateAnalytics(updateLayersPanel(s5)))

ResetClick ==
    /\ UserCan
    /\ Commit(resetDesign(Cur), [name |-> "reset", designBefore |-> DesignCount,
                                  historyBefore |-> Len(history)])
    /\ UserOp

(* handleImageUpload(file): fabric.Image.fromURL starts loading *)
HandleImageUpload ==
    /\ UserCan
    /\ Len(pending) < MaxPending
    /\ DesignCount < MaxObjects
    /\ \E size \in ImageSizes :
          Commit([Cur EXCEPT !.pending = Append(@, [kind |-> "upload", size |-> size,
                                                    cleared |-> FALSE])],
                 [name |-> "handleImageUpload"])
    /\ UserOp

(* the callback handleImageUpload gives to fabric.Image.fromURL *)
imageLoaded(s, size) ==
    LET id == FreshId(s)
        img == NewUpload(s.width, s.height, size[1], size[2])
        added == canvasAdd(PutObj(s, id, img), id)
        checked == checkBounds(setActiveObject(added, id), id)
        s1 == [checked EXCEPT !.objs[id] = setCoords(@)]
    IN updateAnalytics(debouncedUpdate(updateLayersPanel(saveHistory(s1))))

(* addPatternImage(url), on the click of a pattern item: fabric.Image.fromURL *)
(* starts loading                                                             *)
PatternItemClick ==
    /\ UserCan
    /\ Len(pending) < MaxPending
    /\ DesignCount < MaxObjects
    /\ \E size \in PatternSizes :
          Commit([Cur EXCEPT !.pending = Append(@, [kind |-> "pattern", size |-> size,
                                                    cleared |-> FALSE])],
                 [name |-> "addPatternImage"])
    /\ UserOp

(* a callback that adds its pattern over the patterns there are *)
patternLoadedKeepsExisting(s, size) ==
    LET id == FreshId(s)
        fImg == NewPattern(s.width, s.height, size[1], size[2])
        added == canvasAdd(PutObj(s, id, [fImg EXCEPT !.patternImage = TRUE]), id)
    IN debouncedUpdate(sendToBack(added, id))

(* the callback addPatternImage gives to fabric.Image.fromURL *)
patternLoaded(s, size) ==
    LET id == FreshId(s)
        fImg == NewPattern(s.width, s.height, size[1], size[2])
        existing == SelectSeq(s.canvas, LAMBDA k : s.objs[k].patternImage)
        removed == canvasRemoveAll(s, existing)
        added == canvasAdd(PutObj(removed, id, [fImg EXCEPT !.patternImage = TRUE]), id)
    IN debouncedUpdate(sendToBack(added, id))

(* click on togglePatternBtn *)
togglePattern(s) ==
    LET movable == ~s.patternMovable
    IN debouncedUpdate(
           [s EXCEPT !.patternMovable = movable,
                     !.objs = [k \in DOMAIN s.objs |->
                                 IF k \in Range(s.canvas) /\ s.objs[k].patternImage
                                 THEN setCoords([s.objs[k] EXCEPT !.selectable = movable,
                                                                  !.evented = movable])
                                 ELSE s.objs[k]]])

TogglePatternClick ==
    /\ UserCan
    /\ Commit(togglePattern(Cur), [name |-> "togglePattern"])
    /\ UserOp

(* the callback cloneControl gives to target.clone: object is the form    *)
(* of the target that clone() serialized, target the object as it is now  *)
cloned(s, object, target) ==
    LET id == FreshId(s)
        clone == [Enlivened(object) EXCEPT !.left = s.objs[target].left + Px(30),
                                           !.top = s.objs[target].top + Px(30),
                                           !.evented = TRUE]
        added == canvasAdd(PutObj(s, id, clone), id)
    IN updateAnalytics(debouncedUpdate(updateLayersPanel(saveHistory(
           setActiveObject(added, id)))))

(* cloneControl mouseUpHandler: target.clone(callback) calls back at once, *)
(* or when the element of an image has loaded                              *)
cloneControl(s, target) ==
    IF s.objs[target].type = "image"
    THEN [s EXCEPT !.pending = Append(@, [kind |-> "clone", target |-> target,
                                          object |-> Serialized(s.objs[target]),
                                          cleared |-> FALSE])]
    ELSE cloned(s, Serialized(s.objs[target]), target)

CloneControl ==
    /\ UserCan
    /\ activeObject \in Range(canvas)
    /\ DesignCount < MaxObjects
    /\ objs[activeObject].type = "image" => Len(pending) < MaxPending
    /\ Commit(cloneControl(Cur, activeObject),
              [name |-> "cloneControl", target |-> activeObject])
    /\ UserOp

(* an asynchronous load completes and its callback runs *)
completed(s, i) ==
    LET item == s.pending[i]
        s1 == [s EXCEPT !.pending = RemoveAt(@, i)]
    IN IF item.kind = "upload" THEN imageLoaded(s1, item.size)
       ELSE IF item.kind = "pattern" THEN patternLoaded(s1, item.size)
       ELSE IF item.kind = "clone" THEN cloned(s1, item.object, item.target)
       ELSE loadFromJSON(s1, item.state)

LoadCompletes ==
    /\ \E i \in 1..Len(pending) :
          Commit(completed(Cur, i),
                 [name |-> pending[i].kind, request |-> pending[i]])
    /\ UNCHANGED <<transforming, outerMug, ops, probe>>

(* the image of an upload cannot be loaded: fabric.Image.fromURL calls    *)
(* the callback all the same, with an image of no element (0 x 0) and an  *)
(* error flag the callback has no parameter for                           *)
failed(s, i) ==
    imageLoaded([s EXCEPT !.pending = RemoveAt(@, i)], <<0, 0>>)

(* the scale of a pattern image that did not load is not a number: only  *)
(* the failure of an upload is followed                                  *)
LoadFails ==
    /\ \E i \in 1..Len(pending) :
          /\ pending[i].kind = "upload"
          /\ Commit(failed(Cur, i), [name |-> "uploadFailed"])
    /\ UNCHANGED <<transforming, outerMug, ops, probe>>

(* loadMug resolves, or fails and createFallbackMug runs: the outer mesh  *)
(* is registered                                                          *)
MugLoaded ==
    /\ ~outerMug
    /\ outerMug' = TRUE
    /\ lastOp' = [name |-> "loadMug"]
    /\ effects' = <<>>
    /\ UNCHANGED <<canvas, objs, activeObject, transforming, history, redoHistory,
                   layersPanel, timeout, timers, pending, width, height, elapsed,
                   runsSinceCall, burst, map, loads, safeZoneVisible,
                   bleedVisible, modal, modalTimers, analytics, patternMovable,
                   ops, probe>>

(* time passes until a pending sync timer is due, and it runs *)
TimerElapses ==
    /\ \E h \in DOMAIN timers :
          /\ \A g \in DOMAIN timers : timers[g] >= timers[h]
          /\ \A i \in DOMAIN modalTimers : modalTimers[i] >= timers[h]
          /\ outerMug => Len(loads) < MaxLoads
          /\ Commit(runTimer(advance(Cur, timers[h]), h),
                    [name |-> "updateMugTexture",
                     sinceCall |-> advance(Cur, timers[h]).elapsed,
                     burst |-> burst,
                     raster |-> IF outerMug
                                THEN toDataURL(setExportHelpers(Cur, FALSE))
                                ELSE <<>>])
    /\ UNCHANGED <<transforming, outerMug, ops, probe>>

(* a texture has been decoded: the onLoad callback runs *)
TextureLoaded ==
    /\ \E i \in 1..Len(loads) :
          Commit(textureLoaded(Cur, i), [name |-> "textureLoaded", previous |-> map])
    /\ UNCHANGED <<transforming, outerMug, ops, probe>>

(* a texture could not be decoded *)
TextureFails ==
    /\ \E i \in 1..Len(loads) :
          Commit(textureFailed(Cur, i), [name |-> "textureFailed", previous |-> map])
    /\ UNCHANGED <<transforming, outerMug, ops, probe>>

(* click on toggleSafeZone *)
toggleSafeZone(s) ==
    [s EXCEPT !.safeZoneVisible = ~@, !.objs[safeRect].visible = ~s.safeZoneVisible]

ToggleSafeZone ==
    /\ UserCan
    /\ Commit(toggleSafeZone(Cur), [name |-> "toggleSafeZone"])
    /\ UserOp

(* click on toggleBleed *)
toggleBleed(s) ==
    [s EXCEPT !.bleedVisible = ~@, !.objs[bleedRect].visible = ~s.bleedVisible]

ToggleBleed ==
    /\ UserCan
    /\ Commit(toggleBleed(Cur), [name |-> "toggleBleed"])
    /\ UserOp

(* the timer callback of showModal: modal.style.display = "none" *)
hideModal(s) ==
    [s EXCEPT !.modal = FALSE, !.modalTimers = Tail(@)]

(* time passes until the oldest hide timer is due, and it runs *)
ModalTimerElapses ==
    /\ modalTimers # <<>>
    /\ \A g \in DOMAIN timers : timers[g] >= Head(modalTimers)
    /\ Commit(hideModal(advance(Cur, Head(modalTimers))), [name |-> "hideModal"])
    /\ UNCHANGED <<transforming, outerMug, ops, probe>>

(* the width fabric measures for a line of TextLength characters at      *)
(* fontSize when its charSpacing, in thousandths of an em, goes from c0   *)
(* to c1: every character but the last is followed by the spacing        *)
remeasured(w, c0, c1) ==
    w + ((TextLength - 1) * fontSize * UnitsPerPx * (c1 - c0)) \div 1000

(* updateActiveTextProperties(), the sliders at letterSpacing and         *)
(* baselineOffset: set() of a text with charSpacing measures it again and *)
(* refreshes its coordinates                                              *)
updateActiveTextProperties(s, letterSpacing, baselineOffset) ==
    LET id == s.activeObject
    IN IF id # NoObject /\ s.objs[id].type = "i-text"
       THEN LET o == s.objs[id]
                set == [o EXCEPT !.charSpacing = letterSpacing,
                                 !.width = remeasured(o.width, o.charSpacing,
                                                      letterSpacing),
                                 !.top = o.top + (baselineOffset - o.baselineOffset)]
            IN debouncedUpdate(
                   [s EXCEPT !.objs[id] =
                       [setCoords(set) EXCEPT !.baselineOffset = baselineOffset]])
       ELSE s

(* input on the letterSpacing or the baselineOffset slider *)
TextSliderInput ==
    /\ UserCan
    /\ \E p \in TextSliderValues :
          Commit(updateActiveTextProperties(Cur, p[1], p[2]),
                 [name |-> "textInput"])
    /\ UserOp

(* updateCanvasSize(containerWidth, containerHeight); the division by    *)
(* ASPECT_RATIO = 614 / 230 is exact for the sizes of the model          *)
updateCanvasSize(s, containerWidth, containerHeight) ==
    LET fromWidth == IF containerWidth - Px(32) < Px(DEFAULT_CANVAS_WIDTH)
                     THEN containerWidth - Px(32) ELSE Px(DEFAULT_CANVAS_WIDTH)
        tooHigh == (fromWidth * DEFAULT_CANVAS_HEIGHT) \div DEFAULT_CANVAS_WIDTH
                       > containerHeight - Px(32)
        newHeight == IF tooHigh THEN containerHeight - Px(32)
                     ELSE (fromWidth * DEFAULT_CANVAS_HEIGHT) \div DEFAULT_CANVAS_WIDTH
        newWidth == IF tooHigh
                    THEN (newHeight * DEFAULT_CANVAS_WIDTH) \div DEFAULT_CANVAS_HEIGHT
                    ELSE fromWidth
        resized(o, n) == [o EXCEPT !.left = n.left, !.top = n.top,
                                   !.width = n.width, !.height = n.height]
    IN debouncedUpdate(
           [s EXCEPT !.width = newWidth, !.height = newHeight,
                     !.objs = [k \in DOMAIN s.objs |->
                        IF k = safeRect
                        THEN resized(s.objs[k], NewSafeRect(newWidth, newHeight))
                        ELSE IF k = bleedRect
                        THEN resized(s.objs[k], NewBleedRect(newWidth, newHeight))
                        ELSE IF k = vGuide
                        THEN resized(s.objs[k], NewGuide(newWidth \div 2, 0,
                                                         newWidth \div 2, newHeight))
                        ELSE IF k = hGuide
                        THEN resized(s.objs[k], NewGuide(0, newHeight \div 2,
                                                         newWidth, newHeight \div 2))
                        ELSE s.objs[k]]])

(* the window is resized, or the divider between the panes is dragged *)
WindowResize ==
    /\ UserCan
    /\ \E c \in ContainerSizes :
          Commit(updateCanvasSize(Cur, c[1], c[2]), [name |-> "updateCanvasSize"])
    /\ UserOp

(* updatePatternProperties(): the size slider at size percent; the angle  *)
(* of an object is not part of the model                                  *)
updatePatternProperties(s, size) ==
    LET rescaled(o) ==
            LET bx == <<s.width - Px(120), o.width>>
                by == <<s.height - Px(20), o.height>>
                baseScale == IF FracLeq(bx, by) THEN by ELSE bx
                scale == <<baseScale[1] * size, baseScale[2] * 100>>
            IN [o EXCEPT !.scaleX = scale, !.scaleY = scale]
    IN debouncedUpdate(
           [s EXCEPT !.objs = [k \in DOMAIN s.objs |->
                                 IF k \in Range(s.canvas) /\ s.objs[k].patternImage
                                 THEN rescaled(s.objs[k]) ELSE s.objs[k]]])

(* input on the pattern size or rotation slider *)
PatternSliderInput ==
    /\ UserCan
    /\ \E size \in {100} :
          Commit(updatePatternProperties(Cur, size),
                 [name |-> "patternInput", redoBefore |-> Len(redoHistory)])
    /\ UserOp

(* The editor while the mug model is still loading (no texture is made); *)
(* the texture pipeline is SpecTexture.                                   *)
Next ==
    \/ AddTextConfirm
    \/ ObjectMoving
    \/ ObjectModified
    \/ DeleteControl
    \/ LayerSelect
    \/ LayerVisibility
    \/ LayerLock
    \/ LayerDelete
    \/ LayerDrop
    \/ CurvedTextChange
    \/ UndoClick
    \/ RedoCall
    \/ ResetClick
    \/ HandleImageUpload
    \/ PatternSliderInput
    \/ LoadCompletes
    \/ ModalTimerElapses
    \/ TimerElapses

Spec == Init /\ [][Next]_vars

-----------------------------------------------------------------------------
(* The constraint engine on its own: a text or an image under a mouse     *)
(* transform, at any of a set of geometries, on canvases of several sizes *)
(* (the helper rectangles as resetDesign builds them for that size).      *)

CanvasSizes == {<<Px(DEFAULT_CANVAS_WIDTH), Px(DEFAULT_CANVAS_HEIGHT)>>,
                <<Px(400), 1498>>, <<Px(200), Px(75)>>}

GeomTypes == {"i-text", "image"}
GeomSizes == {<<Px(200), 452>>, <<Px(600), Px(300)>>}
GeomScales == {<<1, 1>>, <<2, 1>>, <<1, 2>>}

(* offsets of the object's centre from the canvas centre, per axis *)
GeomOffsets == {-Px(400), -Px(11), -Px(snapPx), -Px(5), 0, Px(3), Px(snapPx),
                Px(11), Px(400)}

(* the cached coordinates of the object: refreshed where it is (after    *)
(* canvas.add or a finished transform), or still those of the canvas      *)
(* centre, where the drag that brought it here began                     *)
GeomCoords == {"fresh", "stale"}

first == hGuide + 1

GeomObject(size, type, box, sx, sy, dx, dy, coords) ==
    LET o == [NewObject(type, size[1] \div 2 + dx, size[2] \div 2 + dy,
                        box[1], box[2], 0, "center")
              EXCEPT !.scaleX = sx, !.scaleY = sy]
        start == setPositionByOrigin(o, size[1] \div 2, size[2] \div 2)
    IN IF coords = "fresh" THEN setCoords(o)
       ELSE [o EXCEPT !.aCoords = calcCoords(start)]

GeomObjs(size, type, box, sx, sy, dx, dy, coords) ==
    [id \in HelperIds \cup {first} |->
       IF id = safeRect THEN setCoords(NewSafeRect(size[1], size[2]))
       ELSE IF id = bleedRect THEN setCoords(NewBleedRect(size[1], size[2]))
       ELSE IF id = vGuide
            THEN setCoords(NewGuide(size[1] \div 2, 0, size[1] \div 2, size[2]))
       ELSE IF id = hGuide
            THEN setCoords(NewGuide(0, size[2] \div 2, size[1], size[2] \div 2))
       ELSE GeomObject(size, type, box, sx, sy, dx, dy, coords)]

InitGeom ==
    /\ \E size \in CanvasSizes, type \in GeomTypes, box \in GeomSizes,
          sx \in GeomScales, sy \in GeomScales,
          dx \in GeomOffsets, dy \in GeomOffsets, coords \in GeomCoords :
          /\ width = size[1]
          /\ height = size[2]
          /\ objs = GeomObjs(size, type, box, sx, sy, dx, dy, coords)
    /\ canvas = <<safeRect, bleedRect, vGuide, hGuide, first>>
    /\ activeObject = first
    /\ transforming = first
    /\ history = <<>>
    /\ redoHistory = <<>>
    /\ layersPanel = <<first>>
    /\ timeout = 0
    /\ timers = <<>>
    /\ pending = <<>>
    /\ elapsed = 0
    /\ runsSinceCall = 0
    /\ burst = 0
    /\ outerMug = FALSE
    /\ map = NoTexture
    /\ loads = <<>>
    /\ safeZoneVisible = TRUE
    /\ bleedVisible = TRUE
    /\ modal = FALSE
    /\ modalTimers = <<>>
    /\ analytics = NoAnalytics
    /\ patternMovable = FALSE
    /\ ops = 0
    /\ lastOp = [name |-> "transform"]
    /\ effects = <<>>
    /\ probe = [fn |-> "none"]

GeomFrame ==
    UNCHANGED <<canvas, activeObject, transforming, history, redoHistory,
                layersPanel, timeout, timers, pending, width, height, elapsed,
                runsSinceCall, burst, outerMug, map, loads, safeZoneVisible,
                bleedVisible, analytics, patternMovable, ops, effects>>

(* checkBounds(obj) is applied to the object under the mouse *)
CheckBoundsCall ==
    /\ probe.fn = "none"
    /\ objs' = checkBounds(Cur, transforming).objs
    /\ modal' = checkBounds(Cur, transforming).modal
    /\ modalTimers' = checkBounds(Cur, transforming).modalTimers
    /\ probe' = [fn |-> "checkBounds", before |-> objs[transforming]]
    /\ lastOp' = [name |-> "checkBounds"]
    /\ GeomFrame

(* snapToCenter(obj) is applied to the object under the mouse *)
SnapToCenterCall ==
    /\ probe.fn = "none"
    /\ objs' = snapToCenter(Cur, transforming).objs
    /\ probe' = [fn |-> "snapToCenter", before |-> objs[transforming]]
    /\ lastOp' = [name |-> "snapToCenter"]
    /\ UNCHANGED <<modal, modalTimers>>
    /\ GeomFrame

NextGeom == CheckBoundsCall \/ SnapToCenterCall

SpecGeom == InitGeom /\ [][NextGeom]_vars

-----------------------------------------------------------------------------
(* The history cap on its own: one text is added and then dragged again   *)
(* and again, the k-th snapshot of the run leaving it at CapPoint(k), so  *)
(* that every snapshot differs from the others.                           *)

MaxPushes == 52

(* where the k-th snapshot finds the text: the canvas centre after the    *)
(* add (k = 1), then one pixel further right each drag, clear of the      *)
(* centre lines and inside the safe zone                                  *)
CapPoint(k) ==
    IF k = 1 THEN <<width \div 2, height \div 2>>
    ELSE <<Px(160 + k), Px(60)>>

(* the number of the snapshot that shows the text where object o is *)
CapNo(o) ==
    IF o.top = height \div 2 THEN 1 ELSE o.left \div UnitsPerPx - 160

CapSize == CHOOSE size \in TextSizes : TRUE

(* the k-th snapshot *)
CapSnapshot(k) ==
    <<Serialized(setPositionByOrigin(
          NewIText(width, height, CapSize[1], CapSize[2]),
          CapPoint(k)[1], CapPoint(k)[2]))>>

CapAddText ==
    /\ DesignCount = 0
    /\ AddTextConfirm

CapMoving ==
    /\ transforming = NoObject
    /\ first \in Range(canvas)
    /\ CapNo(objs[first]) < MaxPushes
    /\ transforming' = first
    /\ Commit(objectMoving(Cur, first, CapPoint(CapNo(objs[first]) + 1)),
              [name |-> "object:moving"])
    /\ UNCHANGED <<outerMug, ops, probe>>

NextCap ==
    \/ CapAddText
    \/ CapMoving
    \/ ObjectModified
    \/ TimerElapses

SpecCap == Init /\ [][NextCap]_vars

-----------------------------------------------------------------------------
(* The history cap under undo and redo: one image is uploaded and dragged *)
(* again and again until the undo stack is nearly full; then undo and     *)
(* redo are called, while the drags go on and while the images of the     *)
(* states being restored load (CapPending loads at once).                 *)

CapPending == 2

CapUpload ==
    /\ DesignCount = 0
    /\ history = <<>>
    /\ HandleImageUpload

CapUndo ==
    /\ Len(history) >= HistoryCap - 1
    /\ Len(pending) < CapPending
    /\ UserCan
    /\ Commit(undo(Cur), [name |-> "undo", historyBefore |-> Len(history)])
    /\ UserOp

CapRedo ==
    /\ Len(history) >= HistoryCap - 1
    /\ Len(redoHistory) > 0
    /\ Len(pending) < CapPending
    /\ UserCan
    /\ Commit(redo(Cur), [name |-> "redo", redoBefore |-> Len(redoHistory),
                          historyBefore |-> Len(history)])
    /\ UserOp

NextCapRedo ==
    \/ CapUpload
    \/ LoadCompletes
    \/ CapMoving
    \/ ObjectModified
    \/ CapUndo
    \/ CapRedo

SpecCapRedo == Init /\ [][NextCapRedo]_vars

-----------------------------------------------------------------------------
(* The debounce on its own: calls of debouncedUpdate at any moment, with  *)
(* time passing in steps of 50 or 100 ms.                                 *)

Tick ==
    /\ \E dt \in {50, 100} :
          /\ \A h \in DOMAIN timers : timers[h] >= dt
          /\ \A i \in DOMAIN modalTimers : modalTimers[i] >= dt
          /\ elapsed < 2 * DEBOUNCE_TIME
          /\ Commit(advance(Cur, dt), [name |-> "tick"])
    /\ UNCHANGED <<transforming, outerMug, ops, probe>>

NextTimer ==
    \/ PatternSliderInput
    \/ Tick
    \/ TimerElapses
    \/ MugLoaded
    \/ TextureLoaded
    \/ TextureFails

SpecTimer == Init /\ [][NextTimer]_vars

-----------------------------------------------------------------------------
(* The texture pipeline: the mug model loads, one text is added, shown,  *)
(* hidden and dragged, the safe-zone and bleed rectangles are toggled,    *)
(* and the textures the sync makes are decoded, or fail to be, in any     *)
(* order.                                                                 *)

TexAddText ==
    /\ DesignCount = 0
    /\ AddTextConfirm

NextTexture ==
    \/ MugLoaded
    \/ TexAddText
    \/ ObjectMoving
    \/ ObjectModified
    \/ LayerVisibility
    \/ ToggleSafeZone
    \/ ToggleBleed
    \/ ResetClick
    \/ TimerElapses
    \/ TextureLoaded
    \/ TextureFails

SpecTexture == Init /\ [][NextTexture]_vars

-----------------------------------------------------------------------------
(* The texture while the mug model loads: a text is added, hidden and    *)
(* locked before or after loadMug completes. The browser runs every timer *)
(* that is due and every load callback, and loadMug ends by resolving or  *)
(* by the fallback mug: these steps are fair. The user's are not.         *)

NextLive ==
    \/ MugLoaded
    \/ TexAddText
    \/ LayerVisibility
    \/ LayerLock
    \/ TimerElapses
    \/ TextureLoaded

SpecLive ==
    /\ Init
    /\ [][NextLive]_vars
    /\ WF_vars(MugLoaded)
    /\ WF_vars(TimerElapses)
    /\ WF_vars(TextureLoaded)

-----------------------------------------------------------------------------
(* A text on its own: it is added, dragged, scaled, spaced and shifted,  *)
(* the canvas is resized, and undo and redo are called.                  *)

TextMoving ==
    /\ ops < MaxOps
    /\ first \in Range(canvas)
    /\ transforming \in {NoObject, first}
    /\ \E p \in TextDragPoints :
          Commit(objectMoving(Cur, first, p), [name |-> "object:moving"])
    /\ transforming' = first
    /\ ops' = ops + 1
    /\ UNCHANGED <<outerMug, probe>>

TextScaling ==
    /\ ops < MaxOps
    /\ first \in Range(canvas)
    /\ transforming \in {NoObject, first}
    /\ \E f \in TextScales :
          Commit(objectScaling(Cur, first, f), [name |-> "object:scaling"])
    /\ transforming' = first
    /\ ops' = ops + 1
    /\ UNCHANGED <<outerMug, probe>>

NextText ==
    \/ TexAddText
    \/ TextMoving
    \/ TextScaling
    \/ ObjectModified
    \/ TextSliderInput
    \/ WindowResize
    \/ UndoClick
    \/ RedoCall

SpecText == Init /\ [][NextText]_vars

-----------------------------------------------------------------------------
(* Patterns: pattern items are clicked while earlier pattern images still *)
(* load (PatPending at once), the images arrive in any order, pattern     *)
(* movement is switched on and off, and a text is added.                  *)

PatPending == 2

(* natural sizes of the pattern images clicked here: 500px x 250px and    *)
(* 300px x 300px                                                          *)
PatSizes == PatternSizes \cup {<<Px(300), Px(300)>>}

(* a click on a pattern item; the request keeps the number of the click *)
PatternSelect ==
    /\ UserCan
    /\ Len(pending) < PatPending
    /\ \E size \in PatSizes :
          Commit([Cur EXCEPT !.pending = Append(@, [kind |-> "pattern", size |-> size,
                                                    cleared |-> FALSE, click |-> ops])],
                 [name |-> "addPatternImage"])
    /\ UserOp

NextPattern ==
    \/ PatternSelect
    \/ LoadCompletes
    \/ TogglePatternClick
    \/ TexAddText

SpecPattern == Init /\ [][NextPattern]_vars

-----------------------------------------------------------------------------
(* Snapshots, undos and redos only: every operation of this specification *)
(* either records a snapshot (a text is added, an object is dragged and   *)
(* released, an object is deleted) or walks the two stacks.               *)

(* measured sizes of the texts typed here: the default one, and a longer *)
(* one of 600px x 45.2px, wider than the safe zone                       *)
HistTextSizes == TextSizes \cup {<<Px(600), 452>>}

HistAddText ==
    /\ UserCan
    /\ DesignCount < MaxObjects
    /\ \E size \in HistTextSizes :
          Commit(addText(Cur, size), [name |-> "addText"])
    /\ UserOp

NextHistory ==
    \/ HistAddText
    \/ ObjectMoving
    \/ ObjectModified
    \/ DeleteControl
    \/ UndoClick
    \/ RedoCall

SpecHistory == Init /\ [][NextHistory]_vars

-----------------------------------------------------------------------------
(* The asynchronous paths: images, patterns and clones that complete, or *)
(* fail, at any moment between the user's other operations.              *)

NextAsync ==
    \/ TexAddText
    \/ HandleImageUpload
    \/ PatternItemClick
    \/ CloneControl
    \/ DeleteControl
    \/ LayerSelect
    \/ UndoClick
    \/ ResetClick
    \/ LoadCompletes
    \/ LoadFails
    \/ TimerElapses

SpecAsync == Init /\ [][NextAsync]_vars

-----------------------------------------------------------------------------
(* Properties of the constraint engine, checked under SpecGeom.  After a  *)
(* call, probe.before is the object as it was handed in and               *)
(* objs[transforming] is the object as the call left it.                  *)

ProbeAfter == objs[transforming]

ProbeSafe == getBoundingRect(objs[safeRect])

ProbeDx == Abs(getCenterPoint(probe.before).x - width \div 2)

ProbeDy == Abs(getCenterPoint(probe.before).y - height \div 2)

(* C5: an object whose centre x is at most 10px (10px included) from W/2  *)
(* has its centre x at exactly W/2 after snapToCenter; an object whose    *)
(* centre x is 11px or more from W/2 keeps its x position.                *)
C5_SnapThreshold ==
    probe.fn = "snapToCenter" =>
        /\ ProbeDx <= Px(snapPx) => getCenterPoint(ProbeAfter).x = width \div 2
        /\ ProbeDx >= Px(11) => ProbeAfter.left = probe.before.left

(* C6: after snapToCenter the centre x is exactly W/2 iff it was within   *)
(* the threshold of the vertical centreline, the centre y is exactly H/2  *)
(* iff it was within the threshold of the horizontal centreline, and each *)
(* guide is visible iff its axis snapped.                                 *)
C6_SnapPerAxis ==
    probe.fn = "snapToCenter" =>
        /\ getCenterPoint(ProbeAfter).x = width \div 2 <=> ProbeDx < Px(snapPx)
        /\ getCenterPoint(ProbeAfter).y = height \div 2 <=> ProbeDy < Px(snapPx)
        /\ objs[vGuide].visible <=> ProbeDx < Px(snapPx)
        /\ objs[hGuide].visible <=> ProbeDy < Px(snapPx)

-----------------------------------------------------------------------------
(* Properties of the history and of the layer list, checked under Spec *)

(* C1: with snapshots S0 and S1 on top of the undo stack and the scene    *)
(* at S1, undo restores the scene to exactly S0, and a redo() that        *)
(* follows restores the scene to exactly S1.                              *)
C1_UndoRedoRoundTrip ==
    [][/\ (/\ lastOp'.name = "undo"
           /\ lastOp'.historyBefore >= 2
           /\ lastOp'.scene = lastOp'.undone
           /\ pending' = <<>>)
          => toJSON(Cur)' = lastOp'.target
       /\ (/\ lastOp.name = "undo"
           /\ lastOp.historyBefore >= 2
           /\ lastOp.scene = lastOp.undone
           /\ pending = <<>>
           /\ lastOp'.name = "redo"
           /\ pending' = <<>>)
          => toJSON(Cur)' = lastOp.undone]_vars

(* C7: the layer list holds exactly the objects of the scene that carry   *)
(* neither excludeFromExport nor excludeFromLayers, so none of the safe   *)
(* rectangle, bleed rectangle, guides or the path of a curved text.       *)
C7_LayersExcludeHelpers ==
    /\ \A i \in 1..Len(canvas) :
          canvas[i] \in Range(layersPanel)
             <=> ~(objs[canvas[i]].excludeFromExport
                    \/ objs[canvas[i]].excludeFromLayers)
    /\ Range(layersPanel) \subseteq Range(canvas)

(* C8: with n >= 2 layers, dropping the entry shown last (index n-1) on   *)
(* the entry shown first (index 0) makes the dragged entry's object the   *)
(* topmost design object and keeps the paint order of all other objects.  *)
C8_BottomToTop ==
    (/\ lastOp.name = "layerDrop"
     /\ lastOp.layers >= 2
     /\ lastOp.from = lastOp.layers - 1
     /\ lastOp.to = 0)
    => /\ Last(designObjects(Cur)) = lastOp.dragged
       /\ SelectSeq(canvas, LAMBDA id : id # lastOp.dragged)
            = SelectSeq(lastOp.before, LAMBDA id : id # lastOp.dragged)

(* the objects of the scene in paint order *)
SceneObjects == [i \in 1..Len(canvas) |-> objs[canvas[i]]]

(* C9: undo with fewer than 2 entries on the undo stack, and redo() with  *)
(* an empty redo stack, change neither the scene nor either stack; undo   *)
(* never leaves the undo stack empty.                                     *)
C9_UnderflowNoOp ==
    [][/\ (\/ lastOp'.name = "undo" /\ Len(history) < 2
           \/ lastOp'.name = "redo" /\ Len(redoHistory) = 0)
          => /\ SceneObjects' = SceneObjects
             /\ UNCHANGED <<canvas, activeObject, history, redoHistory,
                            layersPanel, pending, timers, timeout>>
       /\ (lastOp'.name = "undo" /\ Len(history) >= 1)
          => Len(history') >= 1]_vars

(* undo was clicked with one entry on the undo stack, which is still there *)
C9_Witness ==
    /\ lastOp.name = "undo"
    /\ lastOp.historyBefore = 1
    /\ Len(history) = 1

(* the handlers that change the scene on behalf of the user *)
MutationNames ==
    {"addText", "upload", "deleteControl", "layerDelete", "layerDrop",
     "curvedText", "layerVisibility", "layerLock", "patternInput"}

(* C10: every handler that changes the scene (add, remove, modify,        *)
(* reorder, visibility, lock, pattern size or rotation) leaves the redo   *)
(* stack empty.                                                           *)
C10_MutationClearsRedo ==
    [][(\/ lastOp'.name \in MutationNames /\ SceneObjects' # SceneObjects
        \/ lastOp'.name = "object:modified")
       => redoHistory' = <<>>]_vars

-----------------------------------------------------------------------------
(* The history cap, checked under SpecCap *)

(* C2: after n pushes on an empty undo stack the stack holds the last     *)
(* min(n, 50) snapshots in push order: after 51 pushes it holds exactly   *)
(* snapshots 2..51, and each push beyond 50 evicts the oldest entry only. *)
C2_HistoryKeepsLast50 ==
    (first \in Range(canvas) /\ transforming = NoObject) =>
        LET n == CapNo(objs[first])
            len == IF n > HistoryCap THEN HistoryCap ELSE n
        IN /\ Len(history) = len
           /\ \A i \in 1..len : history[i] = CapSnapshot(n - len + i)

(* the 51st snapshot has been pushed and 50 entries are on the stack *)
C2_Witness ==
    /\ first \in Range(canvas)
    /\ transforming = NoObject
    /\ CapNo(objs[first]) = HistoryCap + 1
    /\ Len(history) = HistoryCap
    /\ history[1] = CapSnapshot(2)
    /\ history[HistoryCap] = CapSnapshot(HistoryCap + 1)

-----------------------------------------------------------------------------
(* The debounce, checked under SpecTimer *)

(* C3: at most one sync timer is pending; updateMugTexture never runs     *)
(* while a call of the burst is less than 300ms old, and runs exactly     *)
(* once, 300ms after the last call, however many calls the burst had.     *)
C3_DebounceCollapses ==
    /\ Cardinality(DOMAIN timers) <= 1
    /\ runsSinceCall <= 1
    /\ DOMAIN timers # {} => runsSinceCall = 0 /\ elapsed + timers[timeout] = DEBOUNCE_TIME
    /\ (DOMAIN timers = {} /\ timeout # 0) => runsSinceCall = 1
    /\ (timeout # 0 /\ elapsed < DEBOUNCE_TIME) => runsSinceCall = 0
    /\ lastOp.name = "updateMugTexture" => lastOp.sinceCall = DEBOUNCE_TIME

(* a burst of two or more calls has ended in one run of updateMugTexture *)
C3_Witness ==
    /\ lastOp.name = "updateMugTexture"
    /\ lastOp.burst >= 2
    /\ lastOp.sinceCall = DEBOUNCE_TIME
    /\ runsSinceCall = 1
    /\ DOMAIN timers = {}

-----------------------------------------------------------------------------
(* Properties of the snapshots, checked under Spec *)

(* C11: every handler that changes the scene (add, remove, geometry,      *)
(* visibility, lock, pattern size or rotation, text properties) has, when *)
(* it returns, pushed a snapshot on the undo stack that serializes the    *)
(* scene as the handler left it.                                          *)
C11_MutationIsSnapshotted ==
    [][(\/ lastOp'.name \in MutationNames /\ SceneObjects' # SceneObjects
        \/ lastOp'.name = "object:modified")
       => /\ history' # history
          /\ Last(history') = toJSON(Cur)']_vars

-----------------------------------------------------------------------------
(* Properties of checkBounds on any object, checked under SpecGeom *)

(* the bounding box of an object where it is *)
BoxOf(o) == calcCoords(o)

(* C12: checkBounds changes neither the position nor the scale of an      *)
(* object that is not a text, and it shows the bleed warning iff an edge  *)
(* of the object's bounding box lies outside the bleed rectangle.         *)
C12_CheckBoundsFrameAndWarning ==
    probe.fn = "checkBounds" =>
        /\ probe.before.type # "i-text" =>
              /\ ProbeAfter.left = probe.before.left
              /\ ProbeAfter.top = probe.before.top
              /\ ProbeAfter.scaleX = probe.before.scaleX
              /\ ProbeAfter.scaleY = probe.before.scaleY
        /\ modal <=> outsideBleed(BoxOf(probe.before), BoxOf(objs[bleedRect]))

-----------------------------------------------------------------------------
(* Properties of the texture synchronisation, checked under SpecTexture *)

(* the objects of the scene that are marked excludeFromExport *)
ExportHelpers == {id \in Range(canvas) : objs[id].excludeFromExport}

(* C13: updateMugTexture rasterizes no object marked excludeFromExport,   *)
(* and after it every such object is as visible as it was before it:      *)
(* hidden guides stay hidden, and the safe and bleed rectangles are shown *)
(* iff safeZoneVisible and bleedVisible say so.                           *)
C13_SyncRestoresHelperVisibility ==
    [][(lastOp'.name = "updateMugTexture" /\ outerMug)
       => /\ \A i \in 1..Len(lastOp'.raster) : ~lastOp'.raster[i].helper
          /\ \A id \in ExportHelpers : objs'[id].visible = objs[id].visible
          /\ safeRect \in ExportHelpers
                => objs'[safeRect].visible = safeZoneVisible'
          /\ bleedRect \in ExportHelpers
                => objs'[bleedRect].visible = bleedVisible']_vars

(* C14: when a texture cannot be decoded, the mug keeps the texture it    *)
(* had, that texture is not disposed, and the designer goes on: its       *)
(* scene, stacks and timers are untouched and it still takes input.       *)
C14_DecodeFailureKeepsTexture ==
    [][lastOp'.name = "textureFailed"
       => /\ map' = map
          /\ ~map'.disposed
          /\ map' = lastOp'.previous
          /\ UNCHANGED <<canvas, objs, history, redoHistory, timers, modal,
                         activeObject, layersPanel>>]_vars

(* a texture failed to decode while the mug had an earlier texture *)
C14_Witness ==
    /\ lastOp.name = "textureFailed"
    /\ lastOp.previous # NoTexture
    /\ map = lastOp.previous
    /\ ~map.disposed

-----------------------------------------------------------------------------
(* Properties of the event subscribers and of the asynchronous           *)
(* callbacks, checked under SpecAsync                                    *)

(* the calls that change the object set or the paint order of the canvas *)
SceneMutations == {"add", "insertAt", "remove", "sendToBack"}

SceneEvents == {"object:added", "object:removed", "object:modified"}

(* the effects of a subscriber, in the order of the three handlers *)
SubscriberEffects ==
    <<"saveHistory", "updateLayersPanel", "debouncedUpdate", "updateAnalytics">>

(* C15: in every handler, on every code path, each mutation of the scene  *)
(* is followed at once by its event, and each event at once by the        *)
(* snapshot, the refresh of the layer list, the scheduling of the texture *)
(* sync and the analytics, in this order, before anything else happens.   *)
C15_EffectsFollowEveryMutation ==
    \A i \in 1..Len(effects) :
        /\ effects[i] \in SceneEvents
              => /\ i + 4 <= Len(effects)
                 /\ SubSeq(effects, i + 1, i + 4) = SubscriberEffects
        /\ effects[i] \in SceneMutations
              => /\ i < Len(effects)
                 /\ effects[i + 1] \in SceneEvents

(* C16: the layer list shown is the projection of the scene as it is: in  *)
(* every state, after every operation that changed the object set or the  *)
(* paint order, it holds the objects updateLayersPanel would list now, in  *)
(* the order it would list them.                                          *)
C16_LayerListIsProjection ==
    layersPanel = Reverse(designObjects(Cur))

(* C17: when the image of an upload cannot be loaded, the user is told    *)
(* (the modal is shown) and the scene, the undo stack and the redo stack  *)
(* are as they were: no broken object is added.                           *)
C17_LoadFailureIsReported ==
    [][lastOp'.name = "uploadFailed"
       => /\ modalTimers' # modalTimers
          /\ canvas' = canvas
          /\ SceneObjects' = SceneObjects
          /\ history' = history
          /\ redoHistory' = redoHistory]_vars

(* the request of the completion that ran last is stale: the canvas was   *)
(* cleared (reset, undo, redo) after it was made, or the object it is to  *)
(* clone is no longer on the canvas                                       *)
Stale(request) ==
    \/ request.cleared
    \/ request.kind = "clone" /\ request.target \notin Range(canvas)

(* C18: the callback of an image load, a pattern load or a clone whose    *)
(* request is stale changes nothing of the scene.                         *)
C18_StaleCallbackIsDropped ==
    [][(lastOp'.name \in {"upload", "pattern", "clone"} /\ Stale(lastOp'.request))
       => /\ canvas' = canvas
          /\ SceneObjects' = SceneObjects]_vars

-----------------------------------------------------------------------------
(* The history cap under undo and redo, checked under SpecCapRedo *)

(* C19: however saveHistory, undo and redo interleave, the undo stack     *)
(* never holds more than 50 entries, although redo pushes on it without   *)
(* applying the cap: an entry is on the redo stack only after undo has    *)
(* taken one off the undo stack.                                          *)
C19_UndoStackAtMost50 ==
    /\ Len(history) <= HistoryCap
    /\ Len(history) + Len(redoHistory) <= HistoryCap

(* redo has pushed the 50th entry on the undo stack *)
C19_Witness ==
    /\ lastOp.name = "redo"
    /\ lastOp.redoBefore > 0
    /\ lastOp.historyBefore = HistoryCap - 1
    /\ Len(history) = HistoryCap

-----------------------------------------------------------------------------
(* The safe zone, checked under SpecText *)

(* the safe zone of the canvas as it is now *)
SafeZone == calcCoords(objs[safeRect])

(* the box of object o lies inside rectangle r *)
Inside(o, r) ==
    LET b == calcCoords(o)
    IN /\ r.left <= b.left
       /\ b.left + b.width <= r.left + r.width
       /\ r.top <= b.top
       /\ b.top + b.height <= r.top + r.height

(* C20: whenever no gesture is under way, every text of the scene lies    *)
(* inside the safe zone of the canvas as it is then, whatever sequence of *)
(* add text, move, scale, canvas resize, letter-spacing and baseline      *)
(* input, undo and redo led there.                                        *)
C20_TextStaysInSafeZone ==
    transforming = NoObject =>
        \A id \in Range(canvas) :
            objs[id].type = "i-text" => Inside(objs[id], SafeZone)

-----------------------------------------------------------------------------
(* The warning modal, checked under Spec *)

(* C21: a warning stays on screen for 3 seconds from its own emission:    *)
(* the modal is never hidden while a warning was emitted less than 3      *)
(* seconds ago, that is, while the hide timer of some emission has time   *)
(* left.                                                                  *)
C21_WarningStaysItsThreeSeconds ==
    ~modal => \A i \in DOMAIN modalTimers : modalTimers[i] = 0

-----------------------------------------------------------------------------
(* The analytics, checked under Spec *)

(* the texts of the scene that updateAnalytics counts *)
CountedTexts ==
    {id \in Range(canvas) : /\ ~objs[id].excludeFromLayers
                            /\ ~objs[id].excludeFromExport
                            /\ objs[id].type = "i-text"}

(* C22: once a handler has run updateAnalytics, elementsCount is the      *)
(* number of design objects of the scene, the count recorded for every    *)
(* font and every colour is the number of texts of the scene that use it, *)
(* and a further updateAnalytics would change nothing.                    *)
C22_AnalyticsFollowScene ==
    (effects # <<>> /\ Last(effects) = "updateAnalytics") =>
        /\ analytics.elementsCount
              = Cardinality({id \in Range(canvas) : /\ ~objs[id].excludeFromLayers
                                                    /\ ~objs[id].excludeFromExport})
        /\ \A f \in DOMAIN analytics.fonts :
              analytics.fonts[f]
                 = Cardinality({id \in CountedTexts : objs[id].fontFamily = f})
        /\ \A c \in DOMAIN analytics.colors :
              analytics.colors[c]
                 = Cardinality({id \in CountedTexts : objs[id].fill = c})
        /\ \A id \in CountedTexts : /\ objs[id].fontFamily \in DOMAIN analytics.fonts
                                    /\ objs[id].fill \in DOMAIN analytics.colors
        /\ updateAnalytics(Cur).analytics = analytics

-----------------------------------------------------------------------------
(* Reset, checked under Spec *)

(* C23: after resetDesign the scene holds the four helper objects and     *)
(* nothing else and both stacks are empty; an undo or a redo that comes   *)
(* next changes neither the scene nor the stacks.                         *)
C23_ResetCannotBeUndone ==
    [][/\ lastOp'.name = "reset"
          => /\ Len(canvas') = 4
             /\ Range(canvas') = HelperIds
             /\ history' = <<>>
             /\ redoHistory' = <<>>
       /\ (lastOp.name = "reset" /\ lastOp'.name \in {"undo", "redo"})
          => /\ SceneObjects' = SceneObjects
             /\ history' = <<>>
             /\ redoHistory' = <<>>
             /\ pending' = pending]_vars

(* a design with objects and snapshots has been reset *)
C23_Witness ==
    /\ lastOp.name = "reset"
    /\ lastOp.designBefore > 0
    /\ lastOp.historyBefore > 0
    /\ Range(canvas) = HelperIds
    /\ history = <<>>

-----------------------------------------------------------------------------
(* The undo stack against the scene, checked under SpecHistory *)

(* C24: after any sequence of snapshots, undos and redos, an undo stack   *)
(* that is not empty has the serialization of the current scene on top    *)
(* (no drag being in progress).                                           *)
C24_TopIsCurrentScene ==
    (transforming = NoObject /\ history # <<>>) => Last(history) = toJSON(Cur)

-----------------------------------------------------------------------------
(* One snapshot per operation, checked under Spec *)

(* C25: a delete (by the delete control or by the button of a layer       *)
(* entry), a completed image upload and a layer reorder each push exactly *)
(* one snapshot on the undo stack, that of the scene as the operation     *)
(* leaves it.                                                             *)
C25_OneSnapshotPerOperation ==
    [][lastOp'.name \in {"deleteControl", "layerDelete", "layerDrop", "upload"}
       => history' = Append(history, toJSON(Cur)')]_vars

-----------------------------------------------------------------------------
(* The first mutation of a session, checked under Spec *)

(* C26: the first mutation of a fresh session can be undone: when a text  *)
(* is added as the first operation and undo is clicked next, the scene is *)
(* empty again.                                                           *)
C26_FirstMutationCanBeUndone ==
    [][(ops = 1 /\ lastOp.name = "addText" /\ lastOp'.name = "undo")
       => toJSON(Cur)' = <<>>]_vars

-----------------------------------------------------------------------------
(* The order of texture callbacks, checked under SpecTexture *)

(* C27: when the last pending texture callback has run, and the texture   *)
(* of the most recent sync is among those delivered, the texture on the   *)
(* mug is that of the most recent sync; and a callback never assigns a    *)
(* texture that was rasterized before a reset.                            *)
C27_LatestTextureWins ==
    [][lastOp'.name = "textureLoaded"
       => /\ (/\ loads' = <<>>
              /\ \/ map.latest
                 \/ \E i \in DOMAIN loads : loads[i].latest)
             => map'.latest
          /\ ~map'.beforeReset]_vars

-----------------------------------------------------------------------------
(* The texture after a late model load, checked under SpecLive *)

(* what a sync would rasterize now *)
CurrentRaster == toDataURL(setExportHelpers(Cur, FALSE))

(* C28: when a sync has returned early because the mug model was still   *)
(* loading while the design was edited, the model becomes available and   *)
(* the texture on it eventually is the raster of the current scene.      *)
C28_LateModelGetsTexture ==
    (/\ ~outerMug
     /\ DesignCount > 0
     /\ lastOp.name = "updateMugTexture")
        ~> (outerMug /\ map.raster = CurrentRaster)

-----------------------------------------------------------------------------
(* Patterns, checked under SpecPattern *)

(* the pattern-fill objects of the scene *)
Patterns == {id \in Range(canvas) : objs[id].patternImage}

(* C29: every pattern-fill object of the scene is selectable and evented  *)
(* exactly when patternMovable is true.                                   *)
C29_PatternFollowsMovable ==
    \A id \in Patterns : /\ objs[id].selectable = patternMovable
                         /\ objs[id].evented = patternMovable

(* C30: the scene never holds more than one pattern-fill object, however  *)
(* pattern clicks and the completions of their loads interleave; the      *)
(* callback of a completed load removes every pattern there is before it  *)
(* adds its own, and leaves its own at the bottom of the canvas.          *)
C30_AtMostOnePattern ==
    [][/\ Cardinality(Patterns') <= 1
       /\ lastOp'.name = "pattern"
          => /\ Patterns \cap Range(canvas') = {}
             /\ Patterns' = {canvas'[1]}
             /\ canvas'[1] \notin Range(canvas)
             /\ \A i, j \in DOMAIN effects' :
                   (effects'[i] = "remove" /\ effects'[j] = "add") => i < j]_vars

(* a pattern clicked after one that still loads has arrived first and has *)
(* replaced the pattern that was there, above which a text had been added *)
C30_Witness ==
    /\ lastOp.name = "pattern"
    /\ \E i \in DOMAIN pending : /\ pending[i].kind = "pattern"
                                 /\ pending[i].click < lastOp.request.click
    /\ "remove" \in Range(effects)
    /\ Cardinality(Patterns) = 1
    /\ Len(canvas) > 5

=============================================================================
